---- MODULE Spec2Model ----
(***************************************************************************)
(* Model of the link-preview feature of me.kortin.cn                       *)
(* (src/src/components/LinkPreviewer.tsx): one LinkPreviewer instance, its *)
(* four timers, its iframe, the pointer that drives its hover handlers,    *)
(* and the two module-level URL caches it shares with the other            *)
(* LinkPreviewer instances of the page.                                    *)
(*                                                                         *)
(* Time is abstracted: a pending timer may fire at any moment, so every    *)
(* timed behaviour of the component is a behaviour of the model.           *)
(*                                                                         *)
(* Two more parts follow, each with a specification of its own: the        *)
(* AnimationManager of src/popup-component-implementation.md (SpecAnim,    *)
(* SpecAnimFair) and the positioning of the Popup component and of the     *)
(* PositionEngine (SpecPos).                                               *)
(***************************************************************************)
EXTENDS Integers, FiniteSets, Sequences, TLC

\* ------------------------------------------------------------------ bounds

\* Largest number of setTimeout callbacks of one kind pending at once.  A
\* handler that would start one more is not taken.
MaxPending == 2

\* ------------------------------------------------------------- environment

\* window.innerWidth values the page is viewed with: the widest mobile
\* viewport and a desktop one.
MobileMaxWidth == 768
Widths == {MobileMaxWidth, MobileMaxWidth + 1}

\* The url prop.  A URL string is kept as its scheme and its remainder:
\* "https://a.example" has a scheme, "/about" has none.
Urls ==
    { [scheme |-> "https", rest |-> "a.example"],
      [scheme |-> "", rest |-> "/about"] }

\* The empty string, the initial value of the iframeSrc signal.
EmptyUrl == [scheme |-> "", rest |-> ""]

\* The four timer variables of the component.
Kinds == {"debounce", "hide", "load", "setSrc"}

VARIABLES
    url,            \* props.url
    innerWidth,     \* window.innerWidth
    mounted,        \* the component has not been disposed
    pointer,        \* where the pointer is: "out", "link" or "popup"
    showPreviewer,  \* signal showPreviewer
    isLoading,      \* signal isLoading
    hasError,       \* signal hasError
    errorMessage,   \* signal errorMessage
    iframeSrc,      \* signal iframeSrc: the empty string or a URL
    iframeNav,      \* the iframe's navigation: "blank", "loading" or "idle"
    loadedUrls,     \* module-level Set loadedUrls
    failedUrls,     \* module-level Set failedUrls
    timers,         \* per kind: callbacks pending, and whether the one the
                    \* variable refers to is among them
    last,           \* history: the last handler or callback of this instance
    hover,          \* history: the fate of the current hover of the link
    loadState       \* history: the load issued by loadPreviewContent: "none",
                    \* "issued" (setSrc timer started), "started" (iframe
                    \* pointed at the URL), "resolved" (first signal seen)

\* The state of the LinkPreviewer component.
previewVars ==
    << url, innerWidth, mounted, pointer, showPreviewer, isLoading, hasError,
       errorMessage, iframeSrc, iframeNav, loadedUrls, failedUrls, timers,
       last, hover, loadState >>

\* The AnimationManager of the Popup implementation plan
\* (src/popup-component-implementation.md, lines 547-736).
VARIABLES
    options,        \* the AnimationConfig the manager was constructed with
    animationState, \* "entering", "entered", "exiting" or "exited"
    classList,      \* this.element.classList
    waits,          \* the waitForAnimation promises whose fallback timer is
                    \* still pending, oldest first: which call awaits it and
                    \* whether it has been resolved
    micro,          \* the microtask queue: continuations of resolved awaits
    animLast,       \* history: the last call, event or callback
    entrances,      \* history: entrance sequences started since the last
                    \* hide() call
    preempted,      \* history: hide() was called while entering, and neither
                    \* "exited" nor a later show() has ended that exit
    requested       \* history: the last call made, "show" or "hide"

animVars ==
    << options, animationState, classList, waits, micro, animLast, entrances,
       preempted, requested >>

\* The positioning of the Popup component (src/unnamed/part_001) and of the
\* PositionEngine of the implementation plan
\* (src/popup-component-implementation.md, lines 333-544).
VARIABLES
    viewport,       \* window.innerWidth and window.innerHeight
    popupProps,     \* target, placement, offset, variant, flip, autoAdjust
    popupRect,      \* the measured size of the popup element
    position,       \* Popup's position signal
    calc,           \* history: the locals of Popup's last calculatePosition
    enginePosition  \* what PositionEngine.calculatePosition last gave

posVars ==
    << viewport, popupProps, popupRect, position, calc, enginePosition >>

\* The InteractionManager of the design document
\* (src/popup-component-design.md, lines 628-738), and of the Popup that
\* owns it what its showPopup and hidePopup do with it.
VARIABLES
    interactionOptions, \* the PopupInteractionProps the manager was given
    focusableCount,     \* how many focusable descendants the popup has
    registered,         \* the listeners registered on document, window and
                        \* the popup: target, event, and the setup() call
                        \* that created the listener
    eventListeners,     \* this.eventListeners: per event name the listener
                        \* stored, 0 for none
    setups,             \* how many setup() calls there have been
    isShowing,          \* signal isShowing of the Popup
    activeElement,      \* document.activeElement
    interLast,          \* history: the last call or event
    closeRequested,     \* history: onClose was called since the last setup()
    closedByOpener,     \* history: the click that opened the overlay also
                        \* called onClose
    focusLeft           \* history: a Tab or Shift+Tab press moved the focus
                        \* from inside the overlay to outside of it

interVars ==
    << interactionOptions, focusableCount, registered, eventListeners,
       setups, isShowing, activeElement, interLast, closeRequested,
       closedByOpener, focusLeft >>

\* The two effects of Popup that follow props.show
\* (src/unnamed/part_001, lines 340-382).
VARIABLES
    show,            \* props.show
    isReady,         \* signal isReady
    frames,          \* how many requestAnimationFrame callbacks are pending
    windowListeners, \* the events of window Popup has a listener on
    windowSize,      \* window.innerWidth and window.innerHeight
    scrollY,         \* window.scrollY
    shownPosition,   \* Popup's position signal
    hiddenUpdate,    \* history: calculatePosition ran and onPositionUpdate
                     \* was called while props.show was false
    effectLast       \* history: the last step

effectVars ==
    << show, isReady, frames, windowListeners, windowSize, scrollY,
       shownPosition, hiddenUpdate, effectLast >>

vars ==
    << url, innerWidth, mounted, pointer, showPreviewer, isLoading, hasError,
       errorMessage, iframeSrc, iframeNav, loadedUrls, failedUrls, timers,
       last, hover, loadState,
       options, animationState, classList, waits, micro, animLast, entrances,
       preempted, requested,
       viewport, popupProps, popupRect, position, calc, enginePosition,
       interactionOptions, focusableCount, registered, eventListeners,
       setups, isShowing, activeElement, interLast, closeRequested,
       closedByOpener, focusLeft,
       show, isReady, frames, windowListeners, windowSize, scrollY,
       shownPosition, hiddenUpdate, effectLast >>

signals == << showPreviewer, isLoading, hasError, errorMessage, iframeSrc >>
caches == << loadedUrls, failedUrls >>

\* ------------------------------------------------------------ pure helpers

\* isMobileDevice(): window.innerWidth <= 768.
IsMobileDevice == innerWidth <= MobileMaxWidth

\* Faulty variant: isValidUrl that accepts every string.
IsValidUrlAlways(u) == TRUE

\* isValidUrl(url): new URL(url) without a base throws unless the string is
\* an absolute URL, that is, has a scheme.
IsValidUrl(u) == u.scheme # ""

\* clearTimeout(v) for every timer variable v in ks: the callback v refers
\* to is removed if it is still pending; other callbacks are untouched.
ClearTimeout(T, ks) ==
    [k \in Kinds |->
        IF k \in ks /\ T[k].cur
        THEN [pend |-> T[k].pend - 1, cur |-> FALSE]
        ELSE T[k]]

\* v = window.setTimeout(...): one more callback pending, v refers to it.  A
\* callback v referred to before stays pending, unreferenced.
SetTimeout(T, k) == [T EXCEPT ![k] = [pend |-> @.pend + 1, cur |-> TRUE]]

\* A pending callback of kind k is taken off the timer queue to run; isCur
\* tells whether it is the one the variable refers to.
Fired(T, k, isCur) ==
    [T EXCEPT ![k] = [pend |-> @.pend - 1,
                      cur |-> IF isCur THEN FALSE ELSE @.cur]]

\* Which pending callback of kind k can run: the referenced one, or one
\* that was overwritten without being cleared.
FiredChoices(k) ==
    { b \in BOOLEAN :
        IF b THEN timers[k].cur
        ELSE timers[k].pend > (IF timers[k].cur THEN 1 ELSE 0) }

Pending(k) == timers[k].pend > 0
Room(k) == timers[k].pend < MaxPending

\* ---------------------------------------------------------- parked parts
\* Each specification of this module runs one part of the site and keeps
\* the others parked in one fixed state.

\* No LinkPreviewer is mounted.
PreviewParked ==
    /\ url = EmptyUrl
    /\ innerWidth = MobileMaxWidth
    /\ mounted = FALSE
    /\ pointer = "out"
    /\ showPreviewer = FALSE
    /\ isLoading = FALSE
    /\ hasError = FALSE
    /\ errorMessage = ""
    /\ iframeSrc = EmptyUrl
    /\ iframeNav = "blank"
    /\ loadedUrls = {}
    /\ failedUrls = {}
    /\ timers = [k \in Kinds |-> [pend |-> 0, cur |-> FALSE]]
    /\ last = "init"
    /\ hover = "none"
    /\ loadState = "none"

\* No AnimationManager is constructed.
AnimParked ==
    /\ options = << >>
    /\ animationState = "exited"
    /\ classList = {}
    /\ waits = << >>
    /\ micro = << >>
    /\ animLast = "init"
    /\ entrances = 0
    /\ preempted = FALSE
    /\ requested = "none"

\* No Popup is rendered and no PositionEngine is constructed.
PosParked ==
    /\ viewport = << >>
    /\ popupProps = << >>
    /\ popupRect = << >>
    /\ position = << >>
    /\ calc = << >>
    /\ enginePosition = << >>

\* No InteractionManager is constructed.
InterParked ==
    /\ interactionOptions = << >>
    /\ focusableCount = 0
    /\ registered = {}
    /\ eventListeners = << >>
    /\ setups = 0
    /\ isShowing = FALSE
    /\ activeElement = << >>
    /\ interLast = "init"
    /\ closeRequested = FALSE
    /\ closedByOpener = FALSE
    /\ focusLeft = FALSE

\* No Popup with effects is rendered.
EffectParked ==
    /\ show = FALSE
    /\ isReady = FALSE
    /\ frames = 0
    /\ windowListeners = {}
    /\ windowSize = << >>
    /\ scrollY = 0
    /\ shownPosition = << >>
    /\ hiddenUpdate = FALSE
    /\ effectLast = "init"

\* ------------------------------------------------------------------- Init

Init ==
    /\ url \in Urls
    /\ innerWidth \in Widths
    /\ mounted = TRUE
    /\ pointer = "out"
    /\ showPreviewer = FALSE
    /\ isLoading = FALSE
    /\ hasError = FALSE
    /\ errorMessage = ""
    /\ iframeSrc = EmptyUrl
    /\ iframeNav = "blank"
    /\ loadedUrls = {}
    /\ failedUrls = {}
    /\ timers = [k \in Kinds |-> [pend |-> 0, cur |-> FALSE]]
    /\ last = "init"
    /\ hover = "none"
    /\ loadState = "none"
    /\ AnimParked
    /\ PosParked
    /\ InterParked
    /\ EffectParked

\* ------------------------------------------------- what each handler clears

\* Faulty variant: handleMouseEnter without clearTimeout(hideTimer).
EnterClearsKeepsHide == {"debounce"}

\* handleMouseEnter: clearTimeout(debounceTimer); clearTimeout(hideTimer).
EnterClears == {"debounce", "hide"}

\* Faulty variant: handleMouseLeave without clearTimeout(debounceTimer).
LeaveClearsKeepsDebounce == {"load", "setSrc"}

\* handleMouseLeave: clearTimeout of debounceTimer, loadTimer, setSrcTimer.
LeaveClears == {"debounce", "load", "setSrc"}

\* Faulty variant: handlePopupMouseEnter without clearTimeout(hideTimer).
PopupEnterClearsKeepsHide == {"debounce"}

\* handlePopupMouseEnter: clearTimeout(hideTimer); clearTimeout(debounceTimer).
PopupEnterClears == {"hide", "debounce"}

\* handlePopupMouseLeave: clearTimeout(hideTimer).
PopupLeaveClears == {"hide"}

\* showPreview: clearTimeout(hideTimer) before the preview is shown.
ShowClears == {"hide"}

\* handleIframeLoad and handleIframeError: clearTimeout(loadTimer).
IframeEventClears == {"load"}

\* Faulty variant: onCleanup without clearTimeout(loadTimer).
CleanupClearsKeepsLoad == {"debounce", "hide", "setSrc"}

\* onCleanup: clearTimeout of all four timer variables.
CleanupClears == {"debounce", "hide", "load", "setSrc"}

\* ------------------------------------------------------------ the signals

\* setIframeSrc(u): the signal changes only when the value differs, and
\* only then is the iframe's src attribute written, which starts a
\* navigation and abandons the one in flight.
SetIframeSrc(u) ==
    /\ iframeSrc' = u
    /\ iframeNav' = IF iframeSrc # u THEN "loading" ELSE iframeNav

\* One of the three signals that end a load (load-timeout, iframe load,
\* iframe error) has arrived: it is the first for a load whose iframe
\* navigation has started.
Resolve == IF loadState = "started" THEN "resolved" ELSE loadState

\* ----------------------------------------------------------- showPreview

\* loadPreview's first test: the iframe already holds this URL and shows no
\* error ("DOM cached").
DomCached == iframeSrc = url /\ ~hasError

\* Faulty variant: loadPreview without its loadedUrls test.
CachedLoadedNever == FALSE

\* loadedUrls.has(props.url)
CachedLoaded == url \in loadedUrls

\* failedUrls.has(props.url)
CachedFailed == url \in failedUrls

\* loadPreviewContent(): setSrcTimer = window.setTimeout(..., 100).
LoadPreviewContent(T) ==
    /\ timers' = SetTimeout(T, "setSrc")
    /\ loadState' = "issued"
    /\ UNCHANGED << iframeSrc, iframeNav >>

\* loadPreview(), with T the timers as showPreview left them.
LoadPreview(T) ==
    IF DomCached
    THEN /\ timers' = T
         /\ UNCHANGED << isLoading, hasError, errorMessage, iframeSrc,
                         iframeNav, loadState >>
    ELSE IF CachedLoaded
    THEN /\ isLoading' = FALSE
         /\ hasError' = FALSE
         /\ errorMessage' = ""
         /\ SetIframeSrc(url)
         /\ timers' = T
         /\ UNCHANGED loadState
    ELSE IF CachedFailed
    THEN /\ isLoading' = FALSE
         /\ hasError' = TRUE
         /\ errorMessage' = "failedBefore"
         /\ timers' = T
         /\ UNCHANGED << iframeSrc, iframeNav, loadState >>
    ELSE /\ isLoading' = TRUE
         /\ hasError' = FALSE
         /\ errorMessage' = ""
         /\ LoadPreviewContent(T)

\* showPreview(), with T the timers after the debounce callback was taken
\* off the queue.  It runs to its end without yielding: every await in it
\* is reached after the synchronous part of the awaited call has run.
ShowPreview(T) ==
    IF ~IsValidUrl(url)
    THEN /\ hasError' = TRUE
         /\ errorMessage' = "invalidUrl"
         /\ showPreviewer' = TRUE
         /\ timers' = T
         /\ UNCHANGED << isLoading, iframeSrc, iframeNav, loadState >>
    ELSE IF IsMobileDevice
    THEN /\ timers' = T
         /\ UNCHANGED << signals, iframeNav, loadState >>
    ELSE /\ showPreviewer' = TRUE
         /\ LoadPreview(ClearTimeout(T, ShowClears))

\* ------------------------------------------------------- pointer handlers

\* The pointer moves onto the link: handleMouseEnter.
HandleMouseEnter ==
    /\ mounted
    /\ pointer = "out"
    /\ Room("debounce")
    /\ pointer' = "link"
    /\ timers' = SetTimeout(ClearTimeout(timers, EnterClears), "debounce")
    /\ last' = "handleMouseEnter"
    /\ hover' = "pending"
    /\ UNCHANGED << url, innerWidth, mounted, signals, iframeNav, caches,
                    loadState >>

\* The pointer moves off the link: handleMouseLeave.
HandleMouseLeave ==
    /\ mounted
    /\ pointer = "link"
    /\ Room("hide")
    /\ pointer' = "out"
    /\ timers' = SetTimeout(ClearTimeout(timers, LeaveClears), "hide")
    /\ last' = "handleMouseLeave"
    /\ hover' = IF hover = "pending" THEN "cancelled" ELSE hover
    /\ UNCHANGED << url, innerWidth, mounted, signals, iframeNav, caches,
                    loadState >>

\* The pointer moves onto the overlay: handlePopupMouseEnter.  Popup gives
\* the overlay pointer-events: none while show is false, so the overlay
\* takes pointer events only while it is shown.
HandlePopupMouseEnter ==
    /\ mounted
    /\ pointer = "out"
    /\ showPreviewer
    /\ pointer' = "popup"
    /\ timers' = ClearTimeout(timers, PopupEnterClears)
    /\ showPreviewer' = TRUE
    /\ last' = "handlePopupMouseEnter"
    /\ UNCHANGED << url, innerWidth, mounted, isLoading, hasError,
                    errorMessage, iframeSrc, iframeNav, caches, hover,
                    loadState >>

\* The pointer moves off the overlay: handlePopupMouseLeave.
HandlePopupMouseLeave ==
    /\ mounted
    /\ pointer = "popup"
    /\ Room("hide")
    /\ pointer' = "out"
    /\ timers' = SetTimeout(ClearTimeout(timers, PopupLeaveClears), "hide")
    /\ last' = "handlePopupMouseLeave"
    /\ UNCHANGED << url, innerWidth, mounted, signals, iframeNav, caches,
                    hover, loadState >>

\* -------------------------------------------------------- timer callbacks

\* The debounce callback runs: showPreview().
DebounceFire ==
    /\ Pending("debounce")
    /\ Room("setSrc")
    /\ \E c \in FiredChoices("debounce") :
           ShowPreview(Fired(timers, "debounce", c))
    /\ last' = "showPreview"
    /\ hover' = IF hover = "pending" THEN "fired" ELSE hover
    /\ UNCHANGED << url, innerWidth, mounted, pointer, caches >>

\* The hide callback runs: setShowPreviewer(false).
HideFire ==
    /\ Pending("hide")
    /\ \E c \in FiredChoices("hide") : timers' = Fired(timers, "hide", c)
    /\ showPreviewer' = FALSE
    /\ last' = "hideTimer"
    /\ UNCHANGED << url, innerWidth, mounted, pointer, isLoading, hasError,
                    errorMessage, iframeSrc, iframeNav, caches, hover,
                    loadState >>

\* The setSrc callback runs: setIframeSrc(props.url), then
\* loadTimer = window.setTimeout(..., LOAD_TIMEOUT).
SetSrcFire ==
    /\ Pending("setSrc")
    /\ Room("load")
    /\ \E c \in FiredChoices("setSrc") :
           timers' = SetTimeout(Fired(timers, "setSrc", c), "load")
    /\ SetIframeSrc(url)
    /\ last' = "setSrcTimer"
    /\ loadState' = IF loadState = "issued" THEN "started" ELSE loadState
    /\ UNCHANGED << url, innerWidth, mounted, pointer, showPreviewer,
                    isLoading, hasError, errorMessage, caches, hover >>

\* The load-timeout callback runs.
LoadTimeoutFire ==
    /\ Pending("load")
    /\ \E c \in FiredChoices("load") : timers' = Fired(timers, "load", c)
    /\ isLoading' = FALSE
    /\ hasError' = TRUE
    /\ errorMessage' = "timeout"
    /\ failedUrls' = failedUrls \cup {url}
    /\ last' = "loadTimeout"
    /\ loadState' = Resolve
    /\ UNCHANGED << url, innerWidth, mounted, pointer, showPreviewer,
                    iframeSrc, iframeNav, loadedUrls, hover >>

\* ----------------------------------------------------------- iframe events

\* The iframe fires load: handleIframeLoad.  The iframe is rendered from
\* mount on (destroyOnHide is false) with src "", so the first load event
\* it can deliver is that of its initial blank document.
HandleIframeLoad ==
    /\ mounted
    /\ iframeNav # "idle"
    /\ iframeNav' = "idle"
    /\ timers' = ClearTimeout(timers, IframeEventClears)
    /\ isLoading' = FALSE
    /\ hasError' = FALSE
    /\ loadedUrls' = loadedUrls \cup {url}
    /\ last' = "handleIframeLoad"
    /\ loadState' = Resolve
    /\ UNCHANGED << url, innerWidth, mounted, pointer, showPreviewer,
                    errorMessage, iframeSrc, failedUrls, hover >>

\* The iframe fires error: handleIframeError.
HandleIframeError ==
    /\ mounted
    /\ iframeNav = "loading"
    /\ iframeNav' = "idle"
    /\ timers' = ClearTimeout(timers, IframeEventClears)
    /\ isLoading' = FALSE
    /\ hasError' = TRUE
    /\ errorMessage' = "loadFailed"
    /\ failedUrls' = failedUrls \cup {url}
    /\ last' = "handleIframeError"
    /\ loadState' = Resolve
    /\ UNCHANGED << url, innerWidth, mounted, pointer, showPreviewer,
                    iframeSrc, loadedUrls, hover >>

\* ---------------------------------------------------------------- teardown

\* The component is disposed: onCleanup.  Its link, overlay and iframe
\* leave the document, so no pointer or iframe event reaches it afterwards.
Cleanup ==
    /\ mounted
    /\ mounted' = FALSE
    /\ timers' = ClearTimeout(timers, CleanupClears)
    /\ pointer' = "out"
    /\ iframeNav' = "idle"
    /\ last' = "onCleanup"
    /\ UNCHANGED << url, innerWidth, signals, caches, hover, loadState >>

\* ------------------------------------------------------------- environment

\* The window is resized across the mobile breakpoint.
Resize ==
    /\ innerWidth' \in Widths \ {innerWidth}
    /\ UNCHANGED << url, mounted, pointer, signals, iframeNav, caches,
                    timers, last, hover, loadState >>

\* Another LinkPreviewer of the page, with url u, runs its handleIframeLoad:
\* loadedUrls is one Set for the whole module.
PeerLoaded(u) ==
    /\ u \notin loadedUrls
    /\ loadedUrls' = loadedUrls \cup {u}
    /\ UNCHANGED << url, innerWidth, mounted, pointer, signals, iframeNav,
                    failedUrls, timers, last, hover, loadState >>

\* Another LinkPreviewer of the page, with url u, runs its load-timeout
\* callback or its handleIframeError.  It issues a load only for a URL that
\* isValidUrl accepts.
PeerFailed(u) ==
    /\ IsValidUrl(u)
    /\ u \notin failedUrls
    /\ failedUrls' = failedUrls \cup {u}
    /\ UNCHANGED << url, innerWidth, mounted, pointer, signals, iframeNav,
                    loadedUrls, timers, last, hover, loadState >>

\* ------------------------------------------------------------------- Next

Next ==
    \/ HandleMouseEnter /\ UNCHANGED << animVars, posVars, interVars, effectVars >>
    \/ HandleMouseLeave /\ UNCHANGED << animVars, posVars, interVars, effectVars >>
    \/ HandlePopupMouseEnter /\ UNCHANGED << animVars, posVars, interVars, effectVars >>
    \/ HandlePopupMouseLeave /\ UNCHANGED << animVars, posVars, interVars, effectVars >>
    \/ DebounceFire /\ UNCHANGED << animVars, posVars, interVars, effectVars >>
    \/ HideFire /\ UNCHANGED << animVars, posVars, interVars, effectVars >>
    \/ SetSrcFire /\ UNCHANGED << animVars, posVars, interVars, effectVars >>
    \/ LoadTimeoutFire /\ UNCHANGED << animVars, posVars, interVars, effectVars >>
    \/ HandleIframeLoad /\ UNCHANGED << animVars, posVars, interVars, effectVars >>
    \/ HandleIframeError /\ UNCHANGED << animVars, posVars, interVars, effectVars >>
    \/ Cleanup /\ UNCHANGED << animVars, posVars, interVars, effectVars >>
    \/ Resize /\ UNCHANGED << animVars, posVars, interVars, effectVars >>
    \/ (\E u \in Urls : PeerLoaded(u)) /\ UNCHANGED << animVars, posVars, interVars, effectVars >>
    \/ (\E u \in Urls : PeerFailed(u)) /\ UNCHANGED << animVars, posVars, interVars, effectVars >>

Spec == Init /\ [][Next]_vars

\* ------------------------------------------------------------ type and shape

TypeOK ==
    /\ url \in Urls
    /\ innerWidth \in Widths
    /\ mounted \in BOOLEAN
    /\ pointer \in {"out", "link", "popup"}
    /\ showPreviewer \in BOOLEAN
    /\ isLoading \in BOOLEAN
    /\ hasError \in BOOLEAN
    /\ errorMessage \in {"", "invalidUrl", "failedBefore", "timeout", "loadFailed"}
    /\ iframeSrc \in Urls \cup {EmptyUrl}
    /\ iframeNav \in {"blank", "loading", "idle"}
    /\ loadedUrls \subseteq Urls
    /\ failedUrls \subseteq Urls
    /\ timers \in [Kinds -> [pend : 0..MaxPending, cur : BOOLEAN]]
    /\ hover \in {"none", "pending", "fired", "cancelled"}
    /\ loadState \in {"none", "issued", "started", "resolved"}

\* ================================================================== claims

\* No timer of kind k is started by the step.
NoneStarted(k) == timers'[k].pend <= timers[k].pend

\* The step issues no load: the iframe is not pointed anywhere, no navigation
\* of it starts, and neither the setSrc timer nor the load-timeout timer is
\* started.
NoLoadIssued ==
    /\ iframeSrc' = iframeSrc
    /\ (iframeNav' = "loading" => iframeNav = "loading")
    /\ NoneStarted("setSrc")
    /\ NoneStarted("load")

\* C1: a hover of the link that ends (handleMouseLeave) before its debounce
\* timer has fired is cancelled for good: from the leave until the next
\* handleMouseEnter, showPreview is not called, showPreviewer does not become
\* true and no load is issued, whatever pointer events and timer firings
\* follow.
C1_LeaveCancelsShow ==
    [][ hover' = "cancelled" =>
          /\ ~DebounceFire
          /\ ~Pending("debounce")'
          /\ (showPreviewer' => showPreviewer)
          /\ NoLoadIssued ]_vars

\* C1 case: a cancelled hover whose hide timer has since fired, on a
\* viewport and URL for which showPreview would have shown the preview.
C1_Witness ==
    /\ hover = "cancelled"
    /\ last = "hideTimer"
    /\ ~showPreviewer
    /\ IsValidUrl(url)
    /\ ~IsMobileDevice

\* C2: while the preview is shown, a pointer-leave from the link or from
\* the overlay leaves showPreviewer true; only the hide timer's callback
\* turns it false; and once handlePopupMouseEnter has run no hide timer is
\* pending and showPreviewer stays true for as long as the pointer is on
\* the overlay.
C2_HideIsDelayedAndCancellable ==
    [][ /\ ((HandleMouseLeave \/ HandlePopupMouseLeave) /\ showPreviewer
              => showPreviewer' /\ Pending("hide")')
        /\ (showPreviewer /\ ~showPreviewer' => HideFire)
        /\ (HandlePopupMouseEnter => ~Pending("hide")' /\ showPreviewer')
        /\ (pointer' = "popup" => ~Pending("hide")' /\ showPreviewer') ]_vars

\* C2 case: the pointer has moved onto the shown overlay after leaving the
\* link of a hover that had shown the preview.
C2_Witness ==
    /\ last = "handlePopupMouseEnter"
    /\ pointer = "popup"
    /\ showPreviewer
    /\ hover = "fired"
    /\ ~Pending("hide")

\* showPreview does not call loadPreviewContent in the step: it starts no
\* setSrc timer, no load-timeout timer, and issues no load of its own.
NoLoadPreviewContent ==
    /\ NoneStarted("setSrc")
    /\ NoneStarted("load")
    /\ loadState' = loadState

\* C3 as stated: every showPreview for a URL that is in loadedUrls ends with
\* isLoading = false and hasError = false and does not call
\* loadPreviewContent.
C3_AsStated ==
    [][ DebounceFire /\ url \in loadedUrls =>
          /\ ~isLoading'
          /\ ~hasError'
          /\ NoLoadPreviewContent ]_vars

\* C3 amended: a showPreview for a URL that is in loadedUrls never calls
\* loadPreviewContent; and for a URL that isValidUrl accepts, on a viewport
\* that is not mobile, it ends with hasError = false, and with isLoading =
\* false unless the iframe already held the URL without error while a load
\* was marked in progress, in which case the call changes nothing.
C3_CachedSuccessNotReloaded ==
    [][ DebounceFire /\ url \in loadedUrls =>
          /\ NoLoadPreviewContent
          /\ (url.scheme # "" /\ innerWidth > MobileMaxWidth =>
                /\ ~hasError'
                /\ showPreviewer'
                /\ iframeSrc' = url
                /\ (isLoading' => DomCached /\ isLoading)) ]_vars

\* C3 case: showPreview has run for a URL of loadedUrls and pointed the
\* iframe at it from the cache: no load was ever issued by
\* loadPreviewContent, yet the iframe holds the URL.
C3_Witness ==
    /\ last = "showPreview"
    /\ url \in loadedUrls
    /\ loadState = "none"
    /\ iframeSrc = url
    /\ showPreviewer
    /\ ~isLoading
    /\ ~hasError

\* C4 as stated: every showPreview on a non-mobile viewport for a valid URL
\* that is in failedUrls ends with hasError = true and isLoading = false,
\* issues no load and starts no timer.
C4_AsStated ==
    [][ DebounceFire /\ url.scheme # "" /\ innerWidth > MobileMaxWidth
          /\ url \in failedUrls =>
          /\ hasError'
          /\ ~isLoading'
          /\ NoLoadIssued
          /\ NoLoadPreviewContent ]_vars

\* C5 as stated: loadedUrls and failedUrls are disjoint in every reachable
\* state.
C5_AsStated == loadedUrls \cap failedUrls = {}

\* C6 as stated: once the first of load-timeout, iframe load and iframe
\* error has arrived for a load issued by loadPreviewContent, a later one of
\* them changes neither hasError nor the cache sets.
C6_AsStated ==
    [][ (LoadTimeoutFire \/ HandleIframeLoad \/ HandleIframeError)
          /\ loadState = "resolved" =>
          /\ hasError' = hasError
          /\ loadedUrls' = loadedUrls
          /\ failedUrls' = failedUrls ]_vars

\* C7 as stated (its first half, on which the rest depends): whenever the
\* preview is shown with isLoading = true for a URL in neither cache set,
\* the setSrc timer or the load-timeout timer is pending.
C7_AsStated ==
    (mounted /\ showPreviewer /\ isLoading
       /\ url \notin loadedUrls /\ url \notin failedUrls)
    => (Pending("setSrc") \/ Pending("load"))

\* C8: once onCleanup has run, none of the debounce, hide, setSrc and
\* load-timeout timers is pending, and onCleanup stays the last handler or
\* callback of the instance to have run.
C8_CleanupCancelsAllTimers ==
    ~mounted => /\ \A k \in Kinds : ~Pending(k)
                /\ last = "onCleanup"

\* C8 case: the component was disposed while its load was in flight, the
\* iframe pointed at the URL and the preview shown.
C8_Witness ==
    /\ ~mounted
    /\ loadState = "started"
    /\ isLoading
    /\ showPreviewer
    /\ iframeSrc = url

\* C9: after handleMouseEnter no hide timer is pending; after
\* handleMouseLeave or handlePopupMouseLeave no show-debounce timer is
\* pending; the show-debounce timer and the hide timer are never pending
\* together.
C9_ShowAndHideSupersede ==
    /\ (last = "handleMouseEnter" => ~Pending("hide") /\ Pending("debounce"))
    /\ (last \in {"handleMouseLeave", "handlePopupMouseLeave"} =>
          ~Pending("debounce") /\ Pending("hide"))
    /\ ~(Pending("debounce") /\ Pending("hide"))

\* C9 case: handleMouseEnter has just run while the preview was still shown,
\* that is, while the hide timer of the preceding leave was pending.
C9_Witness ==
    /\ last = "handleMouseEnter"
    /\ showPreviewer
    /\ Pending("debounce")
    /\ ~Pending("hide")

MaxWaits == 2

\* Largest number of entrance sequences counted between two hide() calls; a
\* show() that would start one more is not taken.
MaxEntrances == 2

\* options.duration: 0 stands for an omitted duration (both are falsy).
Durations == {0, 150}

\* duration used by getPresetAnimation when options.duration is falsy.
DefaultDuration == 200

\* options.animation: the five values of the type, 'custom', and omitted.
Animations == {"fade", "scale", "slide", "bounce", "none", "custom", "unset"}

\* options.direction, or omitted.
Directions == {"up", "down", "left", "right", "unset"}

\* options.animationClass: omitted ({}), or an object ({c}); exit is an
\* optional field the object leaves out.
CustomClass ==
    [enter |-> << "my-enter" >>, enterActive |-> << "my-enter-active" >>,
     exit |-> << >>, exitActive |-> << "my-exit-active" >>]
AnimationClasses == {{}, {CustomClass}}

OptionSets ==
    [animation : Animations, direction : Directions,
     animationClass : AnimationClasses, duration : Durations]

\* The template `duration-${n}`.
DurationClass(n) == "duration-" \o ToString(n)

\* Math.floor(duration * 0.75)
ExitDuration(d) == (d * 3) \div 4

\* getSlideAnimation(direction, duration)
GetSlideAnimation(direction, duration) ==
    LET dir == IF direction = "unset" THEN "up" ELSE direction
        away == CASE dir = "up" -> "translate-y-2"
                  [] dir = "down" -> "-translate-y-2"
                  [] dir = "left" -> "translate-x-2"
                  [] dir = "right" -> "-translate-x-2"
        home == IF dir \in {"up", "down"} THEN "translate-y-0"
                ELSE "translate-x-0"
    IN  [enter |-> << "opacity-0", "transform", away >>,
         enterActive |-> << "opacity-100", "transform", home,
                            "transition-all", DurationClass(duration),
                            "ease-out" >>,
         exit |-> << "opacity-100", "transform", home >>,
         exitActive |-> << "opacity-0", "transform", away, "transition-all",
                           DurationClass(ExitDuration(duration)),
                           "ease-in" >>]

\* getPresetAnimation(animation, direction)
GetPresetAnimation(o) ==
    LET duration == IF o.duration # 0 THEN o.duration ELSE DefaultDuration
    IN  CASE o.animation = "scale" ->
               [enter |-> << "opacity-0", "scale-95" >>,
                enterActive |-> << "opacity-100", "scale-100",
                                   "transition-all", DurationClass(duration),
                                   "ease-out" >>,
                exit |-> << "opacity-100", "scale-100" >>,
                exitActive |-> << "opacity-0", "scale-95", "transition-all",
                                  DurationClass(ExitDuration(duration)),
                                  "ease-in" >>]
          [] o.animation = "slide" ->
               GetSlideAnimation(o.direction, duration)
          [] o.animation = "bounce" ->
               [enter |-> << "opacity-0", "scale-0" >>,
                enterActive |-> << "opacity-100", "scale-100",
                                   "transition-all", DurationClass(duration),
                                   "ease-bounce" >>,
                exit |-> << "opacity-100", "scale-100" >>,
                exitActive |-> << "opacity-0", "scale-0", "transition-all",
                                  DurationClass(ExitDuration(duration)),
                                  "ease-in" >>]
          [] OTHER ->
               [enter |-> << "opacity-0" >>,
                enterActive |-> << "opacity-100", "transition-opacity",
                                   DurationClass(duration) >>,
                exit |-> << "opacity-100" >>,
                exitActive |-> << "opacity-0", "transition-opacity",
                                  DurationClass(ExitDuration(duration)) >>]

\* The preset of animation 'none': four empty strings.
NonePreset ==
    [enter |-> << >>, enterActive |-> << >>, exit |-> << >>,
     exitActive |-> << >>]

\* Faulty variant: getAnimationPreset that looks at animation 'none' before
\* it looks at animationClass.
GetAnimationPresetNoneFirst(o) ==
    IF o.animation = "none" THEN NonePreset
    ELSE IF o.animationClass # {}
    THEN CHOOSE c \in o.animationClass : TRUE
    ELSE GetPresetAnimation(o)

\* getAnimationPreset()
GetAnimationPreset(o) ==
    IF o.animationClass # {} THEN CHOOSE c \in o.animationClass : TRUE
    ELSE IF o.animation = "none" THEN NonePreset
    ELSE GetPresetAnimation(o)

\* if (c) classList.add(...c.split(' '))
AddClasses(cl, c) ==
    IF c # << >> THEN cl \cup {c[i] : i \in 1..Len(c)} ELSE cl

\* if (c) classList.remove(...c.split(' '))
RemoveClasses(cl, c) ==
    IF c # << >> THEN cl \ {c[i] : i \in 1..Len(c)} ELSE cl

ApplyEnterClasses(cl) == AddClasses(cl, GetAnimationPreset(options).enter)

ApplyEnterActiveClasses(cl) ==
    AddClasses(cl, GetAnimationPreset(options).enterActive)

ApplyExitClasses(cl) ==
    AddClasses(RemoveClasses(cl, GetAnimationPreset(options).enterActive),
               GetAnimationPreset(options).exit)

ApplyExitActiveClasses(cl) ==
    AddClasses(cl, GetAnimationPreset(options).exitActive)

\* waitForAnimation() called by show() or hide(): a promise with its event
\* listeners registered and its fallback timer started.
WaitForAnimation(W, kind) == Append(W, [kind |-> kind, done |-> FALSE])

\* Faulty variant: a fallback timer whose callback never resolves the wait.
FallbackResolvesNever(w) == FALSE

\* setTimeout(resolve, ...): the callback resolves the promise unless an
\* event has resolved it before.
FallbackResolves(w) == ~w.done

\* The statement after the await, run when the promise is resolved.
Continuation(kind) == IF kind = "show" THEN "entered" ELSE "exited"

\* The state after construction.
AnimInit ==
    /\ options \in OptionSets
    /\ animationState = "exited"
    /\ classList = {}
    /\ waits = << >>
    /\ micro = << >>
    /\ animLast = "init"
    /\ entrances = 0
    /\ preempted = FALSE
    /\ requested = "none"

\* show(), up to its await.  show() and hide() are called from tasks and
\* from continuations of their own promises, which run after the
\* continuations queued here: never between two of these.
AnimShow ==
    IF animationState \in {"entering", "entered"}
    THEN /\ micro = << >>
         /\ animLast' = "showNoop"
         /\ requested' = "show"
         /\ UNCHANGED << options, animationState, classList, waits, micro,
                         entrances, preempted >>
    ELSE /\ micro = << >>
         /\ Len(waits) < MaxWaits
         /\ entrances < MaxEntrances
         /\ animationState' = "entering"
         /\ classList' = ApplyEnterActiveClasses(ApplyEnterClasses(classList))
         /\ waits' = WaitForAnimation(waits, "show")
         /\ animLast' = "show"
         /\ requested' = "show"
         /\ entrances' = entrances + 1
         /\ preempted' = FALSE
         /\ UNCHANGED << options, micro >>

\* hide(), up to its await.
AnimHide ==
    IF animationState \in {"exiting", "exited"}
    THEN /\ micro = << >>
         /\ animLast' = "hideNoop"
         /\ requested' = "hide"
         /\ entrances' = 0
         /\ UNCHANGED << options, animationState, classList, waits, micro,
                         preempted >>
    ELSE /\ micro = << >>
         /\ Len(waits) < MaxWaits
         /\ animationState' = "exiting"
         /\ classList' = ApplyExitActiveClasses(ApplyExitClasses(classList))
         /\ waits' = WaitForAnimation(waits, "hide")
         /\ animLast' = "hide"
         /\ requested' = "hide"
         /\ entrances' = 0
         /\ preempted' = (animationState = "entering")
         /\ UNCHANGED << options, micro >>

\* An animationend or transitionend event on the element: every listener
\* still registered by an unresolved wait runs, oldest first, removes itself
\* and resolves its promise.  Listeners of waits the timer has resolved are
\* still registered too; they resolve nothing.
AnimationEnd ==
    /\ micro = << >>
    /\ \E i \in 1..Len(waits) : ~waits[i].done
    /\ waits' = [i \in 1..Len(waits) |-> [waits[i] EXCEPT !.done = TRUE]]
    /\ micro' = [i \in 1..Len(SelectSeq(waits, LAMBDA w : ~w.done)) |->
                    SelectSeq(waits, LAMBDA w : ~w.done)[i].kind]
    /\ animLast' = "event"
    /\ UNCHANGED << options, animationState, classList, entrances,
                    preempted, requested >>

\* The oldest pending fallback timer fires.
FallbackFire ==
    /\ micro = << >>
    /\ waits # << >>
    /\ waits' = Tail(waits)
    /\ micro' = IF FallbackResolves(Head(waits))
                THEN << Head(waits).kind >> ELSE << >>
    /\ animLast' = "timer"
    /\ UNCHANGED << options, animationState, classList, entrances,
                    preempted, requested >>

\* The continuation of the oldest resolved await runs: the assignment after
\* `await this.waitForAnimation()` in show() or hide().
AnimContinue ==
    /\ micro # << >>
    /\ animationState' = Continuation(Head(micro))
    /\ micro' = Tail(micro)
    /\ animLast' = "continue"
    /\ preempted' = (preempted /\ Continuation(Head(micro)) # "exited")
    /\ UNCHANGED << options, classList, waits, entrances, requested >>

InitAnim ==
    PreviewParked /\ AnimInit /\ PosParked /\ InterParked /\ EffectParked

NextAnim ==
    \/ AnimShow /\ UNCHANGED << previewVars, posVars, interVars, effectVars >>
    \/ AnimHide /\ UNCHANGED << previewVars, posVars, interVars, effectVars >>
    \/ AnimationEnd /\ UNCHANGED << previewVars, posVars, interVars, effectVars >>
    \/ FallbackFire /\ UNCHANGED << previewVars, posVars, interVars, effectVars >>
    \/ AnimContinue /\ UNCHANGED << previewVars, posVars, interVars, effectVars >>

SpecAnim == InitAnim /\ [][NextAnim]_vars

\* Timer callbacks and microtasks are run by the browser's event loop.
SpecAnimFair ==
    /\ InitAnim
    /\ [][NextAnim]_vars
    /\ WF_animVars(FallbackFire)
    /\ WF_animVars(AnimContinue)

AnimTypeOK ==
    /\ options \in OptionSets
    /\ animationState \in {"entering", "entered", "exiting", "exited"}
    /\ Len(waits) <= MaxWaits
    /\ \A i \in 1..Len(waits) :
         waits[i] \in [kind : {"show", "hide"}, done : BOOLEAN]
    /\ \A i \in 1..Len(micro) : micro[i] \in {"show", "hide"}
    /\ entrances \in 0..MaxEntrances
    /\ preempted \in BOOLEAN
    /\ requested \in {"none", "show", "hide"}

\* ------------------------------------------------ claims: AnimationManager

\* show() or hide() returned at its guard: nothing of the manager changed
\* and no wait was started.
GuardedNoop ==
    UNCHANGED << animationState, classList, waits, micro >>

\* C11 as stated: show() while entering or entered, and hide() while exiting
\* or exited, change neither the state nor the classes and start no wait,
\* and the show() calls between two hide() calls start at most one entrance
\* sequence.
C11_AsStated ==
    [][/\ (AnimShow /\ animationState \in {"entering", "entered"})
            => GuardedNoop
       /\ (AnimHide /\ animationState \in {"exiting", "exited"})
            => GuardedNoop
       /\ entrances' <= 1]_vars

\* C12 as stated: after hide() is called while the state is entering, the
\* state does not take the value entered before it has reached exited.
C12_AsStated == ~(preempted /\ animationState = "entered")

Tokens(c) == {c[i] : i \in 1..Len(c)}

MaxCallDepth == 3

\* window.innerWidth x window.innerHeight: a phone, two tablets and a
\* desktop.
Viewports ==
    { [width |-> 360, height |-> 640],
      [width |-> 800, height |-> 600],
      [width |-> 1000, height |-> 600],
      [width |-> 1200, height |-> 800] }

\* props.target: an element (by its bounding client rectangle), a point, or
\* nothing.  The rectangles: mid-page, in the top left corner, a tall one,
\* in the bottom right corner of the desktop, and one scrolled out above.
ElementTargets ==
    { [kind |-> "element", left |-> 500, top |-> 300, width |-> 100,
       height |-> 20],
      [kind |-> "element", left |-> 10, top |-> 4, width |-> 60,
       height |-> 20],
      [kind |-> "element", left |-> 100, top |-> 100, width |-> 40,
       height |-> 600],
      [kind |-> "element", left |-> 1100, top |-> 760, width |-> 80,
       height |-> 20],
      [kind |-> "element", left |-> 200, top |-> -60, width |-> 100,
       height |-> 20] }
PointTargets ==
    { [kind |-> "point", left |-> 100, top |-> 50, width |-> 0,
       height |-> 0],
      [kind |-> "point", left |-> 700, top |-> 500, width |-> 0,
       height |-> 0] }
NoTarget ==
    [kind |-> "none", left |-> 0, top |-> 0, width |-> 0, height |-> 0]
Targets == ElementTargets \cup PointTargets \cup {NoTarget}

\* props.placement, or omitted.
Placements ==
    {"top", "bottom", "left", "right", "center", "auto", "unset"}

\* props.offset; an omitted offset is [0, 0].
Offsets == { << 0, 0 >>, << 0, 10 >>, << 20, -30 >> }

\* props.variant: only tooltip and dropdown matter to the positioning.
Variants == {"default", "tooltip"}

\* popup.getBoundingClientRect(): a measured popup, and one not yet laid out.
PopupRects == { [width |-> 200, height |-> 100], [width |-> 0, height |-> 0] }

\* PREVIEW_WIDTH and PREVIEW_HEIGHT of LinkPreviewer
PREVIEW_WIDTH == 384
PREVIEW_HEIGHT == 256

\* props.style as an object: its width and height in pixels, 0 for a
\* style that has none (customStyle.width is falsy).  LinkPreviewer passes
\* PREVIEW_WIDTH by PREVIEW_HEIGHT.
Styles ==
    { [width |-> 0, height |-> 0],
      [width |-> PREVIEW_WIDTH, height |-> PREVIEW_HEIGHT] }

PopupPropSets ==
    [target : Targets, placement : Placements, offset : Offsets,
     variant : Variants, flip : BOOLEAN, autoAdjust : BOOLEAN,
     style : Styles]

Min(a, b) == IF a < b THEN a ELSE b
Max(a, b) == IF a > b THEN a ELSE b

\* rect.right and rect.bottom of a DOMRect
Right(r) == r.left + r.width
Bottom(r) == r.top + r.height

\* getResponsiveSize()
GetResponsiveSize(vp) ==
    IF vp.width <= MobileMaxWidth
    THEN [width |-> Min(vp.width - 32, 320),
          height |-> Min(vp.height - 32, 240), margin |-> 16]
    ELSE IF vp.width <= 1024
    THEN [width |-> Min((vp.width * 4) \div 5, 400),
          height |-> Min((vp.height * 3) \div 5, 300), margin |-> 20]
    ELSE [width |-> 400, height |-> 200, margin |-> 10]

\* computedStyle(): the width and height the popup is laid out with.  The
\* custom style's width and height replace the responsive ones, and
\* max-width and max-height, calc(100vw - 32px) and calc(100vh - 32px),
\* cap both.
ComputedStyle(p, vp) ==
    LET size == GetResponsiveSize(vp)
        width == IF p.style.width # 0 THEN p.style.width ELSE size.width
        height == IF p.style.height # 0 THEN p.style.height ELSE size.height
    IN  [width |-> Min(width, vp.width - 32),
         height |-> Min(height, vp.height - 32)]

\* Faulty variant: top and left placements that overlap the anchor by half
\* the popup.
PlacementPositionOverlapping(placement, r, size, offset, vp) ==
    CASE placement = "top" ->
           [x |-> r.left + r.width \div 2 - size.width \div 2 + offset[1],
            y |-> r.top - size.height \div 2 + offset[2]]
      [] placement = "left" ->
           [x |-> r.left - size.width \div 2 + offset[1],
            y |-> r.top + r.height \div 2 - size.height \div 2 + offset[2]]
      [] placement = "right" ->
           [x |-> Right(r) + offset[1],
            y |-> r.top + r.height \div 2 - size.height \div 2 + offset[2]]
      [] placement = "center" ->
           [x |-> vp.width \div 2 - size.width \div 2 + offset[1],
            y |-> vp.height \div 2 - size.height \div 2 + offset[2]]
      [] OTHER ->
           [x |-> r.left + r.width \div 2 - size.width \div 2 + offset[1],
            y |-> Bottom(r) + offset[2]]

\* The switch on placement that both calculatePosition of Popup and
\* calculateInitialPosition of PositionEngine compute for top, bottom, left,
\* right and center; OTHER is Popup's default branch (bottom).
PlacementPosition(placement, r, size, offset, vp) ==
    CASE placement = "top" ->
           [x |-> r.left + r.width \div 2 - size.width \div 2 + offset[1],
            y |-> r.top - size.height + offset[2]]
      [] placement = "left" ->
           [x |-> r.left - size.width + offset[1],
            y |-> r.top + r.height \div 2 - size.height \div 2 + offset[2]]
      [] placement = "right" ->
           [x |-> Right(r) + offset[1],
            y |-> r.top + r.height \div 2 - size.height \div 2 + offset[2]]
      [] placement = "center" ->
           [x |-> vp.width \div 2 - size.width \div 2 + offset[1],
            y |-> vp.height \div 2 - size.height \div 2 + offset[2]]
      [] OTHER ->
           [x |-> r.left + r.width \div 2 - size.width \div 2 + offset[1],
            y |-> Bottom(r) + offset[2]]

\* One axis of Popup's boundary detection: the coordinate, and whether it
\* was moved.
ClampAxis(v, size, limit, margin) ==
    IF v < margin THEN [v |-> margin, hit |-> TRUE]
    ELSE IF v + size > limit - margin
    THEN [v |-> limit - size - margin, hit |-> TRUE]
    ELSE [v |-> v, hit |-> FALSE]

\* Which flip branch of Popup's calculatePosition is taken, if any.
FlipBranch(p, placement, originalX, originalY, size, vp) ==
    IF ~(p.variant \in {"tooltip", "dropdown"} /\ p.flip) THEN "none"
    ELSE IF placement = "top" /\ originalY < size.margin THEN "toBottom"
    ELSE IF placement = "bottom"
            /\ originalY + size.height > vp.height - size.margin
    THEN "toTop"
    ELSE IF placement = "left" /\ originalX < size.margin THEN "toRight"
    ELSE IF placement = "right"
            /\ originalX + size.width > vp.width - size.margin
    THEN "toLeft"
    ELSE "none"

\* Faulty variant: adjusted set by the horizontal boundary branches only.
AdjustedHorizontalOnly(clampedX, clampedY, flipped) == clampedX

\* let adjusted = false, set to true in every boundary or flip branch taken.
Adjusted(clampedX, clampedY, flipped) == clampedX \/ clampedY \/ flipped

\* calculatePosition() of Popup, with its locals.
CalculatePositionLocals(p, vp) ==
    LET size == GetResponsiveSize(vp)
        r == p.target
        placement == IF p.placement = "unset" THEN "bottom" ELSE p.placement
        original == PlacementPosition(placement, r, size, p.offset, vp)
        cx == ClampAxis(original.x, size.width, vp.width, size.margin)
        cy == ClampAxis(original.y, size.height, vp.height, size.margin)
        branch == FlipBranch(p, placement, original.x, original.y, size, vp)
    IN  IF r.kind = "none"
        THEN [x |-> vp.width \div 2 - size.width \div 2,
              y |-> vp.height \div 2 - size.height \div 2,
              placement |-> "center", adjusted |-> FALSE,
              originalX |-> vp.width \div 2 - size.width \div 2,
              originalY |-> vp.height \div 2 - size.height \div 2,
              clampedX |-> FALSE, clampedY |-> FALSE, flipped |-> FALSE,
              width |-> size.width, height |-> size.height, done |-> TRUE]
        ELSE IF r.kind = "point"
        THEN [x |-> r.left, y |-> r.top, placement |-> "custom",
              adjusted |-> FALSE, originalX |-> r.left, originalY |-> r.top,
              clampedX |-> FALSE, clampedY |-> FALSE, flipped |-> FALSE,
              width |-> size.width, height |-> size.height, done |-> TRUE]
        ELSE [x |-> CASE branch = "toRight" -> Right(r) + p.offset[1]
                      [] branch = "toLeft" ->
                           r.left - size.width + p.offset[1]
                      [] OTHER -> cx.v,
              y |-> CASE branch = "toBottom" -> Bottom(r) + p.offset[2]
                      [] branch = "toTop" ->
                           r.top - size.height + p.offset[2]
                      [] OTHER -> cy.v,
              placement |-> placement,
              adjusted |-> Adjusted(cx.hit, cy.hit, branch # "none"),
              originalX |-> original.x, originalY |-> original.y,
              clampedX |-> cx.hit, clampedY |-> cy.hit,
              flipped |-> branch # "none", width |-> size.width,
              height |-> size.height, done |-> TRUE]

\* What calculatePosition() of Popup returns.
CalculatePosition(p, vp) ==
    LET c == CalculatePositionLocals(p, vp)
    IN  [x |-> c.x, y |-> c.y, placement |-> c.placement,
         adjusted |-> c.adjusted]

\* getTargetRect() of PositionEngine
GetTargetRect(target, vp) ==
    IF target.kind = "none"
    THEN [left |-> vp.width \div 2, top |-> vp.height \div 2, width |-> 0,
          height |-> 0]
    ELSE [left |-> target.left, top |-> target.top, width |-> target.width,
          height |-> target.height]

\* The call did not return: RangeError, maximum call stack size exceeded.
Thrown ==
    [outcome |-> "RangeError", x |-> 0, y |-> 0, placement |-> "unset",
     adjusted |-> "unset"]

\* calculateInitialPosition(targetRect, popupRect) of PositionEngine, which
\* reads placement and offset from this.options, and calculateAutoPosition,
\* which calls it back with the same options in each of its four branches.
\* depth is the room left on the call stack.
RECURSIVE CalculateInitialPosition(_, _, _, _, _)
RECURSIVE CalculateAutoPosition(_, _, _, _, _)
CalculateInitialPosition(p, r, pr, vp, depth) ==
    IF depth = 0 THEN Thrown
    ELSE IF p.placement \in {"top", "bottom", "left", "right", "center"}
    THEN LET xy == PlacementPosition(p.placement, r, pr, p.offset, vp)
         IN  [outcome |-> "returned", x |-> xy.x, y |-> xy.y,
              placement |-> p.placement, adjusted |-> "unset"]
    ELSE CalculateAutoPosition(p, r, pr, vp, depth - 1)

CalculateAutoPosition(p, r, pr, vp, depth) ==
    IF depth = 0 THEN Thrown
    ELSE LET space == [top |-> r.top, bottom |-> vp.height - Bottom(r),
                       left |-> r.left, right |-> vp.width - Right(r)]
             maxSpace == Max(Max(space.top, space.bottom),
                             Max(space.left, space.right))
         IN  IF maxSpace = space.bottom
             THEN CalculateInitialPosition(p, r, pr, vp, depth - 1)
             ELSE IF maxSpace = space.top
             THEN CalculateInitialPosition(p, r, pr, vp, depth - 1)
             ELSE IF maxSpace = space.right
             THEN CalculateInitialPosition(p, r, pr, vp, depth - 1)
             ELSE CalculateInitialPosition(p, r, pr, vp, depth - 1)

\* adjustForBoundaries(position, viewport, popupRect)
AdjustForBoundaries(pos, vp, pr) ==
    LET x == IF pos.x < 0 THEN 10
             ELSE IF pos.x + pr.width > vp.width
             THEN vp.width - pr.width - 10
             ELSE pos.x
        y == IF pos.y < 0 THEN 10
             ELSE IF pos.y + pr.height > vp.height
             THEN vp.height - pr.height - 10
             ELSE pos.y
        adjusted == \/ pos.x < 0
                    \/ pos.x + pr.width > vp.width
                    \/ pos.y < 0
                    \/ pos.y + pr.height > vp.height
    IN  [pos EXCEPT !.x = x, !.y = y,
                    !.adjusted = IF adjusted THEN "true" ELSE "false"]

\* handleFlip(position, targetRect, popupRect, viewport)
HandleFlip(pos, r, pr, vp) ==
    LET h == IF pos.placement = "left" /\ pos.x < 0
             THEN [pos EXCEPT !.x = Right(r), !.placement = "right",
                              !.adjusted = "true"]
             ELSE IF pos.placement = "right" /\ pos.x + pr.width > vp.width
             THEN [pos EXCEPT !.x = r.left - pr.width, !.placement = "left",
                              !.adjusted = "true"]
             ELSE pos
    IN  IF pos.placement = "top" /\ h.y < 0
        THEN [h EXCEPT !.y = Bottom(r), !.placement = "bottom",
                       !.adjusted = "true"]
        ELSE IF pos.placement = "bottom" /\ h.y + pr.height > vp.height
        THEN [h EXCEPT !.y = r.top - pr.height, !.placement = "top",
                       !.adjusted = "true"]
        ELSE h

\* applyOffset(position)
ApplyOffset(pos, offset) ==
    [pos EXCEPT !.x = @ + offset[1], !.y = @ + offset[2]]

\* calculatePosition() of PositionEngine
EngineCalculatePosition(p, pr, vp) ==
    LET r == GetTargetRect(p.target, vp)
        initial == CalculateInitialPosition(p, r, pr, vp, MaxCallDepth)
        bounded == IF p.autoAdjust THEN AdjustForBoundaries(initial, vp, pr)
                   ELSE initial
        flipped == IF p.flip THEN HandleFlip(bounded, r, pr, vp)
                   ELSE bounded
    IN  IF initial.outcome = "RangeError" THEN Thrown
        ELSE ApplyOffset(flipped, p.offset)

\* A Popup is rendered and a PositionEngine constructed with the same
\* props; nothing has been computed yet.
PosInit ==
    /\ viewport \in Viewports
    /\ popupProps \in PopupPropSets
    /\ popupRect \in PopupRects
    /\ position = [x |-> 0, y |-> 0, placement |-> "unset",
                   adjusted |-> FALSE]
    /\ calc = [x |-> 0, y |-> 0, placement |-> "unset", adjusted |-> FALSE,
               originalX |-> 0, originalY |-> 0, clampedX |-> FALSE,
               clampedY |-> FALSE, flipped |-> FALSE, width |-> 0,
               height |-> 0, done |-> FALSE]
    /\ enginePosition = [outcome |-> "none", x |-> 0, y |-> 0,
                         placement |-> "unset", adjusted |-> "unset"]

\* updatePosition() of Popup, and the same three statements in its show
\* effect.
UpdatePosition ==
    /\ position' = CalculatePosition(popupProps, viewport)
    /\ calc' = CalculatePositionLocals(popupProps, viewport)
    /\ UNCHANGED << viewport, popupProps, popupRect, enginePosition >>

\* positionEngine.calculatePosition()
EngineCalculate ==
    /\ enginePosition' =
         EngineCalculatePosition(popupProps, popupRect, viewport)
    /\ UNCHANGED << viewport, popupProps, popupRect, position, calc >>

InitPos ==
    PreviewParked /\ AnimParked /\ PosInit /\ InterParked /\ EffectParked

NextPos ==
    \/ UpdatePosition /\ UNCHANGED << previewVars, animVars, interVars, effectVars >>
    \/ EngineCalculate /\ UNCHANGED << previewVars, animVars, interVars, effectVars >>

SpecPos == InitPos /\ [][NextPos]_vars

PosTypeOK ==
    /\ viewport \in Viewports
    /\ popupProps \in PopupPropSets
    /\ popupRect \in PopupRects
    /\ position.adjusted \in BOOLEAN
    /\ position.placement \in Placements \cup {"custom"}
    /\ enginePosition.outcome \in {"none", "returned", "RangeError"}
    /\ enginePosition.adjusted \in {"unset", "true", "false"}

\* ----------------------------------------------------- claims: positioning

\* The four sides a popup can be placed on.
Sides == {"top", "bottom", "left", "right"}

\* The popup touches the given side of the anchor.
Touches(side, r, x, y, w, h) ==
    CASE side = "top" -> y + h = r.top
      [] side = "bottom" -> y = Bottom(r)
      [] side = "left" -> x + w = r.left
      [] side = "right" -> x = Right(r)

\* C15: for an element anchor, offset [0,0] and a requested side, a result
\* that was neither clamped nor flipped touches the anchor on that side:
\* top gives y + popupHeight = anchor.top, bottom y = anchor.bottom, left
\* x + popupWidth = anchor.left, right x = anchor.right.  Both for Popup's
\* calculatePosition and for PositionEngine's.
C15_TouchesAnchorEdge ==
    (/\ popupProps.target.kind = "element"
     /\ popupProps.offset = << 0, 0 >>
     /\ popupProps.placement \in Sides)
    => /\ (calc.done /\ ~calc.clampedX /\ ~calc.clampedY /\ ~calc.flipped)
            => Touches(popupProps.placement, popupProps.target,
                       position.x, position.y,
                       GetResponsiveSize(viewport).width,
                       GetResponsiveSize(viewport).height)
       /\ (enginePosition.outcome = "returned"
           /\ enginePosition.adjusted # "true")
            => Touches(popupProps.placement, popupProps.target,
                       enginePosition.x, enginePosition.y,
                       popupRect.width, popupRect.height)

\* Both calculations have returned an unclamped, unflipped position for a
\* popup requested above an element, with no offset.
C15_Witness ==
    /\ popupProps.target.kind = "element"
    /\ popupProps.offset = << 0, 0 >>
    /\ popupProps.placement = "top"
    /\ calc.done
    /\ ~position.adjusted
    /\ enginePosition.outcome = "returned"
    /\ enginePosition.adjusted = "false"
    /\ popupRect.height > 0

\* A popup of size w x h at (x, y) lies inside the viewport.
InsideViewport(x, y, w, h) ==
    /\ 0 <= x /\ x + w <= viewport.width
    /\ 0 <= y /\ y + h <= viewport.height

\* The part of C16 that is about Popup's calculatePosition.
C16_PopupInside ==
    (/\ popupProps.target.kind = "element"
     /\ popupProps.autoAdjust
     /\ calc.done)
    => InsideViewport(position.x, position.y,
                      GetResponsiveSize(viewport).width,
                      GetResponsiveSize(viewport).height)

\* The part of C16 that is about PositionEngine.calculatePosition.
C16_EngineInside ==
    (/\ popupProps.target.kind = "element"
     /\ popupProps.autoAdjust
     /\ enginePosition.outcome = "returned")
    => InsideViewport(enginePosition.x, enginePosition.y,
                      popupRect.width, popupRect.height)

\* C16 as stated: with autoAdjust enabled and a popup smaller than the
\* viewport, every position calculatePosition returns for an element anchor
\* keeps the popup inside the viewport, whatever the anchor rectangle, the
\* placement, the offset and the flip setting.
C16_AsStated == C16_PopupInside /\ C16_EngineInside

\* The part of C17 that is about Popup's calculatePosition.
C17_PopupFlipsToBottom ==
    (/\ popupProps.target.kind = "element"
     /\ popupProps.flip
     /\ popupProps.placement = "top"
     /\ calc.done
     /\ calc.originalY < 0)
    => (position.placement = "bottom" /\ position.y >= 0)

\* The part of C17 that is about PositionEngine.calculatePosition.
C17_EngineFlipsToBottom ==
    (/\ popupProps.target.kind = "element"
     /\ popupProps.flip
     /\ popupProps.placement = "top"
     /\ enginePosition.outcome = "returned"
     /\ popupProps.target.top - popupRect.height + popupProps.offset[2] < 0)
    => (enginePosition.placement = "bottom" /\ enginePosition.y >= 0)

\* C17 as stated: with flip enabled, a top placement whose natural y
\* (anchor.top - popupHeight + offset) is negative gives a result labelled
\* 'bottom' with a non-negative y, with autoAdjust clamping enabled or not.
C17_AsStated == C17_PopupFlipsToBottom /\ C17_EngineFlipsToBottom

\* The available space on each side of the anchor, up to the viewport edge.
Space(r) ==
    [top |-> r.top, bottom |-> viewport.height - Bottom(r),
     left |-> r.left, right |-> viewport.width - Right(r)]

\* The sides with the largest available space.
BestSides(r) ==
    {side \in Sides : \A other \in Sides : Space(r)[side] >= Space(r)[other]}

\* The part of C18 that is about Popup's calculatePosition: the position
\* before boundary detection is the one of a side with the largest space.
C18_PopupAuto ==
    (/\ popupProps.target.kind = "element"
     /\ popupProps.placement = "auto"
     /\ calc.done)
    => \E side \in BestSides(popupProps.target) :
         PlacementPosition(side, popupProps.target,
                           GetResponsiveSize(viewport), popupProps.offset,
                           viewport)
           = [x |-> calc.originalX, y |-> calc.originalY]

\* The part of C18 that is about PositionEngine.calculatePosition.
C18_EngineAuto ==
    (/\ popupProps.target.kind = "element"
     /\ popupProps.placement = "auto"
     /\ enginePosition.outcome # "none")
    => /\ enginePosition.outcome = "returned"
       /\ enginePosition.placement \in BestSides(popupProps.target)

\* C18 as stated: with placement 'auto' the popup is placed on the side of
\* the anchor whose available space is largest.
C18_AsStated == C18_PopupAuto /\ C18_EngineAuto

\* C19 as stated: PositionEngine.calculatePosition returns a Position for
\* every anchor and every placement, 'auto' and an omitted one included.
C19_AsStated == enginePosition.outcome # "RangeError"

\* C20: for an element anchor, the adjusted flag of the Position Popup's
\* calculatePosition returns is true exactly when boundary detection or the
\* flip moved a coordinate away from where the placement alone puts it.
C20_AdjustedIffMoved ==
    (popupProps.target.kind = "element" /\ calc.done)
    => /\ position.adjusted
            <=> (calc.clampedX \/ calc.clampedY \/ calc.flipped)
       /\ position.adjusted
            <=> (position.x # calc.originalX \/ position.y # calc.originalY)

\* A position whose y alone was moved by boundary detection.
C20_Witness ==
    /\ popupProps.target.kind = "element"
    /\ calc.done
    /\ position.adjusted
    /\ position.x = calc.originalX
    /\ position.y # calc.originalY
    /\ ~calc.flipped

\* The props with the point target replaced by an element whose bounding
\* rectangle is the zero-size rectangle at that point.
AsZeroSizeElement(p) == [p EXCEPT !.target.kind = "element"]

\* The scenario of C21: a point at (100,50), a 200x100 popup, placement
\* bottom, offset [0,10], autoAdjust, in an 800x600 viewport.
C21_Scenario ==
    /\ popupProps.target.kind = "point"
    /\ popupProps.target.left = 100
    /\ popupProps.target.top = 50
    /\ popupProps.placement = "bottom"
    /\ popupProps.offset = << 0, 10 >>
    /\ popupProps.autoAdjust
    /\ viewport = [width |-> 800, height |-> 600]
    /\ popupRect = [width |-> 200, height |-> 100]

\* The part of C21 that is about Popup's calculatePosition.
C21_PopupPoint ==
    (popupProps.target.kind = "point" /\ calc.done)
    => /\ position = CalculatePosition(AsZeroSizeElement(popupProps), viewport)
       /\ C21_Scenario
            => (position.x = 10 /\ position.y = 60 /\ position.adjusted)

\* The part of C21 that is about PositionEngine.calculatePosition.
C21_EnginePoint ==
    (C21_Scenario /\ enginePosition.outcome = "returned")
    => /\ enginePosition.x = 10
       /\ enginePosition.y = 60
       /\ enginePosition.adjusted = "true"

\* C21 as stated: a point anchor is positioned as the zero-size element at
\* that point would be, so the scenario gives x = 10, y = 60 and
\* adjusted = true.
C21_AsStated == C21_PopupPoint /\ C21_EnginePoint

\* C22 as stated: a position PositionEngine.calculatePosition returns
\* neither clamped nor flipped is the placement's natural position plus the
\* offset, once.
C22_AsStated ==
    (/\ enginePosition.outcome = "returned"
     /\ enginePosition.adjusted # "true")
    => LET natural ==
             PlacementPosition(popupProps.placement,
                               GetTargetRect(popupProps.target, viewport),
                               popupRect, << 0, 0 >>, viewport)
       IN  /\ enginePosition.x = natural.x + popupProps.offset[1]
           /\ enginePosition.y = natural.y + popupProps.offset[2]

\* ====================================================== InteractionManager
\* The InteractionManager of src/popup-component-design.md (lines 628-738).
\* A listener is known by the setup() call that created it: every call
\* creates new closures.  The dispatch of one DOM event is one step.
\* setup() also calls setupHoverEvents(), whose body the document does not
\* give; it is taken to register nothing on document, window or the popup.

\* Largest number of setup() calls; one more is not taken.
MaxSetups == 2

\* Largest number of focusable descendants of the popup.
MaxFocusable == 2

\* The keys of this.eventListeners.
EventNames == {"click", "keydown", "scroll"}

\* options.initialFocus, or omitted.
InitialFocusValues == {"unset", "first", "last", "container"}

InteractionOptionSets ==
    [closeOnOutsideClick : BOOLEAN, closeOnEscape : BOOLEAN,
     closeOnScroll : BOOLEAN, trapFocus : BOOLEAN,
     initialFocus : InitialFocusValues]

\* document.activeElement: an element outside the popup, the popup itself,
\* or its k-th focusable descendant in DOM order.
Outside == [where |-> "outside", index |-> 0]
Container == [where |-> "container", index |-> 0]
Item(k) == [where |-> "item", index |-> k]

\* A listener created by setup() call id, registered for event on target.
Listener(target, event, id) == [on |-> target, event |-> event, id |-> id]

\* The addEventListener calls of setupOutsideClick, setupEscapeKey,
\* setupScrollEvents and setupFocusTrap.
SetupRegisters(o, id) ==
    (IF o.closeOnOutsideClick
     THEN {Listener("document", "click", id)} ELSE {})
    \cup (IF o.closeOnEscape
          THEN {Listener("document", "keydown", id)} ELSE {})
    \cup (IF o.closeOnScroll
          THEN {Listener("window", "scroll", id)} ELSE {})
    \cup (IF o.trapFocus
          THEN {Listener("popup", "keydown", id)} ELSE {})

\* The this.eventListeners.set calls of the same three methods: a listener
\* stored under the same event name before is overwritten.
SetupStores(M, o, id) ==
    [e \in EventNames |->
        IF \/ e = "click" /\ o.closeOnOutsideClick
           \/ e = "keydown" /\ o.closeOnEscape
           \/ e = "scroll" /\ o.closeOnScroll
        THEN id ELSE M[e]]

\* setInitialFocus(), which setupFocusTrap calls when trapFocus is set.
SetInitialFocus(o, n, active) ==
    IF ~o.trapFocus THEN active
    ELSE CASE o.initialFocus = "first" ->
                IF n > 0 THEN Item(1) ELSE active
           [] o.initialFocus = "last" ->
                IF n > 0 THEN Item(n) ELSE active
           [] o.initialFocus = "container" -> Container
           [] OTHER -> active

\* cleanup(): document.removeEventListener(event, listener) for every
\* entry of this.eventListeners.
CleanupRemoves(R, M) ==
    R \ {Listener("document", e, M[e]) : e \in EventNames}

\* The listeners the dispatch of an event on a target invokes.
Invoked(R, target, event) == {l \in R : l.on = target /\ l.event = event}

\* handleTabKey: where the focus is after the handler has run for a Tab
\* (shift = FALSE) or Shift+Tab press with the focus on active.
TrapMoves(active, shift, n) ==
    IF n = 0 THEN active
    ELSE IF shift /\ active = Item(1) THEN Item(n)
    ELSE IF ~shift /\ active = Item(n) THEN Item(1)
    ELSE active

\* handleTabKey called preventDefault.
TrapPrevents(active, shift, n) ==
    /\ n > 0
    /\ \/ shift /\ active = Item(1)
       \/ ~shift /\ active = Item(n)

\* The browser's own Tab navigation from inside the popup: the next or
\* previous focusable element in document order.  The popup itself is not
\* in that order (its tabindex, if any, is -1).
NativeTab(active, shift, n) ==
    IF active.where = "container"
    THEN IF ~shift /\ n > 0 THEN Item(1) ELSE Outside
    ELSE IF shift
    THEN IF active.index > 1 THEN Item(active.index - 1) ELSE Outside
    ELSE IF active.index < n THEN Item(active.index + 1) ELSE Outside

\* The state after construction; the popup's content is fixed.
InterInit ==
    /\ interactionOptions \in InteractionOptionSets
    /\ focusableCount \in 0..MaxFocusable
    /\ registered = {}
    /\ eventListeners = [e \in EventNames |-> 0]
    /\ setups = 0
    /\ isShowing = FALSE
    /\ activeElement = Outside
    /\ interLast = "init"
    /\ closeRequested = FALSE
    /\ closedByOpener = FALSE
    /\ focusLeft = FALSE

\* setup()
InterSetup ==
    /\ setups < MaxSetups
    /\ setups' = setups + 1
    /\ registered' =
         registered \cup SetupRegisters(interactionOptions, setups + 1)
    /\ eventListeners' =
         SetupStores(eventListeners, interactionOptions, setups + 1)
    /\ activeElement' =
         SetInitialFocus(interactionOptions, focusableCount, activeElement)
    /\ interLast' = "setup"
    /\ closeRequested' = FALSE
    /\ UNCHANGED << interactionOptions, focusableCount, isShowing,
                    closedByOpener, focusLeft >>

\* cleanup()
InterCleanup ==
    /\ registered' = CleanupRemoves(registered, eventListeners)
    /\ eventListeners' = [e \in EventNames |-> 0]
    /\ interLast' = "cleanup"
    /\ UNCHANGED << interactionOptions, focusableCount, setups, isShowing,
                    activeElement, closeRequested, closedByOpener,
                    focusLeft >>

\* A click on an element outside the popup whose handler sets show to true
\* while the popup is not showing: the Popup's effect runs showPopup, which
\* calls setup() before its first await, that is, during the dispatch.  The
\* handler is a listener on the clicked element ("element"), one that also
\* stops the propagation ("elementStop"), or a listener on document
\* ("document").  From the element the event goes on to document, where
\* the listeners registered by then are invoked, the new one included;
\* a listener added to document while document's listeners run is not.
OpeningClick(opener) ==
    /\ ~isShowing
    /\ setups < MaxSetups
    /\ setups' = setups + 1
    /\ isShowing' = TRUE
    /\ registered' =
         registered \cup SetupRegisters(interactionOptions, setups + 1)
    /\ eventListeners' =
         SetupStores(eventListeners, interactionOptions, setups + 1)
    /\ activeElement' =
         SetInitialFocus(interactionOptions, focusableCount, Outside)
    /\ interLast' = "openingClick"
    /\ closedByOpener' =
         (/\ opener = "element"
          /\ Listener("document", "click", setups + 1)
               \in Invoked(registered', "document", "click"))
    /\ closeRequested' =
         (/\ opener = "element"
          /\ Invoked(registered', "document", "click") # {})
    /\ UNCHANGED << interactionOptions, focusableCount, focusLeft >>

\* hidePopup() after its await: cleanup(), then setIsShowing(false).
HidePopup ==
    /\ isShowing
    /\ registered' = CleanupRemoves(registered, eventListeners)
    /\ eventListeners' = [e \in EventNames |-> 0]
    /\ isShowing' = FALSE
    /\ interLast' = "hidePopup"
    /\ UNCHANGED << interactionOptions, focusableCount, setups,
                    activeElement, closeRequested, closedByOpener,
                    focusLeft >>

\* Any other click outside the popup: every handleClick registered on
\* document calls onClose.
OutsideClick ==
    /\ activeElement' = Outside
    /\ closeRequested' =
         (closeRequested \/ Invoked(registered, "document", "click") # {})
    /\ interLast' = "outsideClick"
    /\ UNCHANGED << interactionOptions, focusableCount, registered,
                    eventListeners, setups, isShowing, closedByOpener,
                    focusLeft >>

\* A click on a focusable descendant of the popup: handleClick finds the
\* target inside the popup and does nothing.
InsideClick(k) ==
    /\ k \in 1..focusableCount
    /\ activeElement' = Item(k)
    /\ interLast' = "insideClick"
    /\ UNCHANGED << interactionOptions, focusableCount, registered,
                    eventListeners, setups, isShowing, closeRequested,
                    closedByOpener, focusLeft >>

\* An Escape key press: every handleKeyDown registered on document calls
\* onClose.
EscapeKey ==
    /\ closeRequested' =
         (closeRequested \/ Invoked(registered, "document", "keydown") # {})
    /\ interLast' = "escape"
    /\ UNCHANGED << interactionOptions, focusableCount, registered,
                    eventListeners, setups, isShowing, activeElement,
                    closedByOpener, focusLeft >>

\* A scroll of the window: every handleScroll registered on window calls
\* onClose.
WindowScroll ==
    /\ closeRequested' =
         (closeRequested \/ Invoked(registered, "window", "scroll") # {})
    /\ interLast' = "scroll"
    /\ UNCHANGED << interactionOptions, focusableCount, registered,
                    eventListeners, setups, isShowing, activeElement,
                    closedByOpener, focusLeft >>

\* A Tab or Shift+Tab press with the focus inside the popup: the keydown
\* event reaches the handleTabKey listeners on the popup; unless one of
\* them prevented the default, the browser then moves the focus itself.
TabKey(shift) ==
    /\ activeElement.where # "outside"
    /\ LET trapped == Invoked(registered, "popup", "keydown") # {}
           prevented ==
               trapped /\ TrapPrevents(activeElement, shift, focusableCount)
           target ==
               IF prevented
               THEN TrapMoves(activeElement, shift, focusableCount)
               ELSE NativeTab(activeElement, shift, focusableCount)
       IN  /\ activeElement' = target
           /\ focusLeft' = (focusLeft \/ (trapped /\ target = Outside))
    /\ interLast' = IF shift THEN "shiftTab" ELSE "tab"
    /\ UNCHANGED << interactionOptions, focusableCount, registered,
                    eventListeners, setups, isShowing, closeRequested,
                    closedByOpener >>

InitInter ==
    PreviewParked /\ AnimParked /\ PosParked /\ InterInit /\ EffectParked

NextInter ==
    \/ InterSetup /\ UNCHANGED << previewVars, animVars, posVars, effectVars >>
    \/ InterCleanup /\ UNCHANGED << previewVars, animVars, posVars, effectVars >>
    \/ (\E opener \in {"element", "elementStop", "document"} :
            OpeningClick(opener))
       /\ UNCHANGED << previewVars, animVars, posVars, effectVars >>
    \/ HidePopup /\ UNCHANGED << previewVars, animVars, posVars, effectVars >>
    \/ OutsideClick /\ UNCHANGED << previewVars, animVars, posVars, effectVars >>
    \/ (\E k \in 1..MaxFocusable : InsideClick(k))
       /\ UNCHANGED << previewVars, animVars, posVars, effectVars >>
    \/ EscapeKey /\ UNCHANGED << previewVars, animVars, posVars, effectVars >>
    \/ WindowScroll /\ UNCHANGED << previewVars, animVars, posVars, effectVars >>
    \/ (\E shift \in BOOLEAN : TabKey(shift))
       /\ UNCHANGED << previewVars, animVars, posVars, effectVars >>

SpecInter == InitInter /\ [][NextInter]_vars

InterTypeOK ==
    /\ interactionOptions \in InteractionOptionSets
    /\ focusableCount \in 0..MaxFocusable
    /\ setups \in 0..MaxSetups
    /\ \A l \in registered :
         /\ l.on \in {"document", "window", "popup"}
         /\ l.event \in EventNames
         /\ l.id \in 1..setups
    /\ eventListeners \in [EventNames -> 0..setups]
    /\ activeElement \in
         {Outside, Container} \cup {Item(k) : k \in 1..focusableCount}
    /\ isShowing \in BOOLEAN

\* ---------------------------------------------- claims: InteractionManager

\* The listeners still registered on document or window.
GlobalListeners == {l \in registered : l.on \in {"document", "window"}}

\* C23 as stated: after cleanup() has returned, none of the click, keydown
\* and scroll listeners that setup() registered on document or window is
\* still registered, whatever the closeOn... flags and the number of
\* setup() calls.
C23_AsStated ==
    interLast \in {"cleanup", "hidePopup"} => GlobalListeners = {}

\* C24 as stated: the click that opens the overlay never also calls onClose
\* through the outside-click listener that this opening registered.
C24_AsStated == ~closedByOpener

\* The focus trap is active: a handleTabKey listener is on the popup.
TrapActive == Invoked(registered, "popup", "keydown") # {}

\* C25 as stated: with the focus trap active, Tab on the last focusable
\* descendant moves the focus to the first, Shift+Tab on the first moves it
\* to the last, and no Tab or Shift+Tab press moves the focus out of an
\* overlay that has a focusable descendant.
C25_AsStated ==
    [][/\ (/\ TabKey(FALSE) /\ TrapActive
           /\ activeElement = Item(focusableCount))
            => activeElement' = Item(1)
       /\ (TabKey(TRUE) /\ TrapActive /\ activeElement = Item(1))
            => activeElement' = Item(focusableCount)
       /\ ~(focusLeft' /\ focusableCount > 0)]_vars

\* ----------------------------------------- claims: LinkPreviewer, continued

\* C26 as stated: while the viewport is mobile (window.innerWidth <= 768),
\* no handler or callback of the component makes showPreviewer true or
\* issues a load, whatever the URL and the hover events.
C26_AsStated ==
    [][(innerWidth <= MobileMaxWidth /\ innerWidth' <= MobileMaxWidth)
         => /\ (showPreviewer' => showPreviewer)
            /\ NoLoadIssued]_vars

\* ------------------------------------ claims: AnimationManager, continued

\* Every wait started so far has been resolved and its continuation run.
AllWaitsResolved ==
    /\ micro = << >>
    /\ \A i \in 1..Len(waits) : waits[i].done

\* C27 as stated: once all pending waits have resolved, the state is
\* entered if the last call was show() and exited if it was hide().
C27_AsStated ==
    (AllWaitsResolved /\ requested # "none")
    => animationState = Continuation(requested)

\* -------------------------------------------- claims: positioning, continued

\* The caller passed a style with a width and a height, as LinkPreviewer
\* does, and Popup has computed a position for an element anchor.
StyledPopupPlaced ==
    /\ popupProps.target.kind = "element"
    /\ popupProps.style.width # 0
    /\ popupProps.style.height # 0
    /\ calc.done

\* The part of C28 about the size: calculatePosition computed with the
\* width and height computedStyle lays the popup out with.
C28_SameSize ==
    StyledPopupPlaced
    => /\ calc.width = ComputedStyle(popupProps, viewport).width
       /\ calc.height = ComputedStyle(popupProps, viewport).height

\* The part of C28 about the viewport: the popup as rendered stays inside
\* the viewport margin, when no flip moved it after the clamping.
C28_RenderedInside ==
    (StyledPopupPlaced /\ ~calc.flipped)
    => LET size == ComputedStyle(popupProps, viewport)
           margin == GetResponsiveSize(viewport).margin
       IN  /\ margin <= position.x
           /\ position.x + size.width <= viewport.width - margin
           /\ margin <= position.y
           /\ position.y + size.height <= viewport.height - margin

\* The part of C28 about the anchor: the popup as rendered touches the
\* anchor on the requested side, when the position was neither clamped nor
\* flipped and the offset is [0,0].
C28_RenderedTouches ==
    (/\ StyledPopupPlaced
     /\ popupProps.offset = << 0, 0 >>
     /\ popupProps.placement \in Sides
     /\ ~calc.clampedX /\ ~calc.clampedY /\ ~calc.flipped)
    => Touches(popupProps.placement, popupProps.target, position.x,
               position.y, ComputedStyle(popupProps, viewport).width,
               ComputedStyle(popupProps, viewport).height)

\* C28 as stated: when the caller passes style.width and style.height,
\* calculatePosition computes with the width and height the popup is
\* rendered with, so the rendered popup stays inside the viewport margin
\* and touches the anchor.
C28_AsStated == C28_SameSize /\ C28_RenderedInside /\ C28_RenderedTouches

\* ------------------------------------- claims: LinkPreviewer, loaded URLs

\* C29: handleIframeLoad never adds props.url to loadedUrls while iframeSrc
\* differs from props.url: a load event of an iframe that was never pointed
\* at the URL leaves loadedUrls without it.
C29_AsStated ==
    [][(HandleIframeLoad /\ iframeSrc # url)
         => (url \in loadedUrls' => url \in loadedUrls)]_vars

\* ------------------------------------------------- Popup: the show effects

\* How many requestAnimationFrame callbacks may be pending at once.
MaxFrames == 2

\* window.scrollY: the page at rest and scrolled down.
ScrollOffsets == {0, 40}

\* The props of the Popup LinkPreviewer renders, with the anchor where the
\* scroll offset puts it.
EffectProps(y) ==
    [target |-> [kind |-> "element", left |-> 500, top |-> 300 - y,
                 width |-> 100, height |-> 20],
     placement |-> "bottom", offset |-> << 0, 10 >>, variant |-> "default",
     flip |-> TRUE, autoAdjust |-> TRUE,
     style |-> [width |-> PREVIEW_WIDTH, height |-> PREVIEW_HEIGHT]]

\* const p = calculatePosition(); setPosition(p);
\* props.onPositionUpdate?.(p): the three statements of updatePosition(),
\* of the show effect and of its requestAnimationFrame callback.
Recompute(size, y, shown) ==
    /\ shownPosition' = CalculatePosition(EffectProps(y), size)
    /\ hiddenUpdate' = (hiddenUpdate \/ ~shown)

\* The show effect, run again because props.show changed.
ShowEffect(b) ==
    IF b
    THEN /\ Recompute(windowSize, scrollY, b)
         /\ isReady' = TRUE
         /\ frames' = frames + 1
    ELSE /\ isReady' = FALSE
         /\ UNCHANGED << shownPosition, hiddenUpdate, frames >>

\* The resize/scroll effect, run again because props.show changed: the
\* onCleanup of its last run removes both listeners, and it adds them when
\* props.show is true.
ListenerEffect(b) ==
    windowListeners' = IF b THEN {"resize", "scroll"} ELSE {}

\* A Popup is rendered with show false: the first run of both effects.
EffectInit ==
    /\ show = FALSE
    /\ isReady = FALSE
    /\ frames = 0
    /\ windowListeners = {}
    /\ windowSize \in Viewports
    /\ scrollY \in ScrollOffsets
    /\ shownPosition = [x |-> 0, y |-> 0, placement |-> "unset",
                        adjusted |-> FALSE]
    /\ hiddenUpdate = FALSE
    /\ effectLast = "init"

\* The parent changes props.show; both effects run.
SetShow ==
    /\ show \/ frames < MaxFrames
    /\ show' = ~show
    /\ ShowEffect(show')
    /\ ListenerEffect(show')
    /\ effectLast' = "setShow"
    /\ UNCHANGED << windowSize, scrollY >>

\* The browser runs the oldest pending requestAnimationFrame callback.
AnimationFrame ==
    /\ frames > 0
    /\ frames' = frames - 1
    /\ Recompute(windowSize, scrollY, show)
    /\ effectLast' = "animationFrame"
    /\ UNCHANGED << show, isReady, windowListeners, windowSize, scrollY >>

\* The window is resized; handleResize runs if it is registered.
WindowResize ==
    /\ \E size \in Viewports \ {windowSize} :
         /\ windowSize' = size
         /\ IF "resize" \in windowListeners
            THEN Recompute(size, scrollY, show)
            ELSE UNCHANGED << shownPosition, hiddenUpdate >>
    /\ effectLast' = "resize"
    /\ UNCHANGED << show, isReady, frames, windowListeners, scrollY >>

\* The page is scrolled; handleScroll runs if it is registered.
PageScroll ==
    /\ \E y \in ScrollOffsets \ {scrollY} :
         /\ scrollY' = y
         /\ IF "scroll" \in windowListeners
            THEN Recompute(windowSize, y, show)
            ELSE UNCHANGED << shownPosition, hiddenUpdate >>
    /\ effectLast' = "scroll"
    /\ UNCHANGED << show, isReady, frames, windowListeners, windowSize >>

InitEffect ==
    PreviewParked /\ AnimParked /\ PosParked /\ InterParked /\ EffectInit

NextEffect ==
    \/ SetShow /\ UNCHANGED << previewVars, animVars, posVars, interVars >>
    \/ AnimationFrame
         /\ UNCHANGED << previewVars, animVars, posVars, interVars >>
    \/ WindowResize
         /\ UNCHANGED << previewVars, animVars, posVars, interVars >>
    \/ PageScroll /\ UNCHANGED << previewVars, animVars, posVars, interVars >>

SpecEffect == InitEffect /\ [][NextEffect]_vars

EffectTypeOK ==
    /\ show \in BOOLEAN
    /\ isReady \in BOOLEAN
    /\ frames \in 0..MaxFrames
    /\ windowListeners \subseteq {"resize", "scroll"}
    /\ windowSize \in Viewports
    /\ scrollY \in ScrollOffsets
    /\ hiddenUpdate \in BOOLEAN

\* ------------------------------------------- claims: Popup's show effects

\* C30: while show is false Popup neither recomputes the position nor calls
\* onPositionUpdate: no resize listener, scroll listener or
\* requestAnimationFrame callback registered during an earlier show has run
\* calculatePosition after show became false.
C30_AsStated == ~hiddenUpdate

====
